---------------------------- MODULE Spec2Model ----------------------------
(***************************************************************************)
(* Client-side synchronisation core of the trading dashboard (App.jsx):    *)
(* the WebSocket lifecycle with reconnect back-off, the routing of inbound *)
(* frames into client state, and the optimistic mutations of the per-symbol*)
(* overlays.  Every handler of the component is one action.                *)
(*                                                                         *)
(* Encoding of JavaScript values:                                          *)
(*   - an object is a function from its keys (strings) to values; a key    *)
(*     that is missing is not in the DOMAIN;                               *)
(*   - the value undefined stored under a key is the string Undefined, the *)
(*     value null the string Null (only under string-valued keys);         *)
(*   - a useState cell that holds null or one object is a sequence of      *)
(*     length 0 or 1 (status, config); dataUpdateStatus, which every       *)
(*     writer reads through (prev || {}), holds the empty object for null. *)
(***************************************************************************)
EXTENDS Integers, Sequences, FiniteSets, TLC

(***************************************************************************)
(* Bounds of the model.                                                    *)
(***************************************************************************)
MaxAttempt == 7
MaxSockets == 3
MaxOrphanTimers == 1
MaxFetch == 2
MaxNow == 2
MaxPending == 2
MaxRows == 3
MaxClicks == 4

VARIABLES
  \* refs of the component (part_003:89-92)
  unmountedRef, wsRef, reconnectAttemptRef,
  \* the timer reconnectTimerRef names, timers no ref names any more, and the
  \* delay the last setTimeout was given
  timerCur, timerOrphans, timerDelay,
  \* readyState of every WebSocket object that still exists
  sock,
  \* useState cells (part_003:80-86, 180-181)
  wsConnected, status, dataUpdateStatus, scanResults, lastScanUpdate,
  positions, config, overrides, entryMethods,
  \* requests in flight: GET refetches per endpoint (and the POSTs of the
  \* data-refresh trigger, under "update"), POST commands of the overlays
  fetchPending, overrideCmds, entryCmds,
  \* wall clock
  now,
  \* one sortable table: which component it is, the rows it was handed, its
  \* useState cells sortCol / sortDir, and the history of column activations
  table, rows, sortCol, sortDir, sortLog,
  \* the status bar: the exchange-local instant of its last render and the
  \* market status it computed there; how far the browser's zone is ahead
  \* of America/New_York, in minutes
  et, mkt, browserTz,
  \* history: reconnects scheduled since the last successful open, and the
  \* handler that ran last with what it saw
  runLen, last

connVars   == <<unmountedRef, wsRef, reconnectAttemptRef, timerCur,
                timerOrphans, timerDelay, sock, runLen>>
frameVars  == <<status, dataUpdateStatus, scanResults, lastScanUpdate,
                positions, config>>
mutVars    == <<overrides, entryMethods, overrideCmds, entryCmds>>
vars == <<unmountedRef, wsRef, reconnectAttemptRef, timerCur, timerOrphans,
          timerDelay, sock, wsConnected, status, dataUpdateStatus,
          scanResults, lastScanUpdate, positions, config, overrides,
          entryMethods, fetchPending, overrideCmds, entryCmds, now, runLen,
          last, table, rows, sortCol, sortDir, sortLog, et, mkt, browserTz>>
panelVars == <<table, rows, sortCol, sortDir, sortLog, et, mkt, browserTz>>

\* Everything the spec calls client state: what consumers of the manager see.
clientState == <<wsConnected, status, dataUpdateStatus, scanResults,
                 lastScanUpdate, positions, config, reconnectAttemptRef>>

(***************************************************************************)
(* JavaScript values                                                       *)
(***************************************************************************)
Undefined == "undefined"
Null      == "null"
NoSocket  == 0
NoTime    == 0

Min(a, b) == IF a <= b THEN a ELSE b

\* a || b on string values: the first operand unless it is falsy
JsOr(a, b) == IF a \in {Undefined, Null, ""} THEN b ELSE a

\* obj?.key : the value under key, undefined when the key is missing
Get(obj, key) == IF key \in DOMAIN obj THEN obj[key] ELSE Undefined

\* obj?.key || 0 on a numeric key
GetNum(obj, key) == IF key \in DOMAIN obj THEN obj[key] ELSE 0

\* { ...a, ...b } : object spread, the keys of b win
Spread(a, b) == [k \in (DOMAIN a) \cup (DOMAIN b) |->
                   IF k \in DOMAIN b THEN b[k] ELSE a[k]]

\* { ...obj } with key deleted
Delete(obj, key) == [k \in (DOMAIN obj) \ {key} |-> obj[k]]

EmptyObj == [k \in {} |-> Null]

(***************************************************************************)
(* Reconnect policy                                                        *)
(***************************************************************************)
getReconnectDelay_NoCap(attempt) == 1000 * 2^attempt

getReconnectDelay(attempt) == Min(1000 * 2^attempt, 30000)

SocketIds == 1..MaxSockets
FreeSockets == {s \in SocketIds : sock[s] = "FREE"}

(***************************************************************************)
(* Inputs: what the server may send                                        *)
(***************************************************************************)
Symbols == {"AAPL", "MSFT"}
Methods == {"prev_close", "market_open", "limit_1pct"}

\* piggybacked data_update sub-objects of a status payload
DUPatches == { [status |-> "running", done |-> 1, total |-> 2],
               [status |-> "idle", last_update |-> "srv"] }

StatusBase == { [scanner_running |-> b] : b \in BOOLEAN }
StatusPayloads == StatusBase \cup
                  { Spread(p, [data_update |-> d]) : p \in StatusBase, d \in DUPatches }

ResultLists == { <<>>,
                 <<[symbol |-> "AAPL", entry_method |-> Null]>>,
                 <<[symbol |-> "AAPL", entry_method |-> "limit_1pct"],
                   [symbol |-> "MSFT", entry_method |-> Null]>> }

PositionLists == { <<>>, <<[symbol |-> "MSFT"]>> }

ConfigObjs == { [default_entry_method |-> "market_open"],
                [paper_trading |-> TRUE] }

StatusFrames == { [type |-> "status", data |-> p] : p \in StatusPayloads }
ScanFrames   == { [type |-> "scan_results", results |-> r] : r \in ResultLists }
               \cup { [type |-> "scan_results"] }
StartedFrames == { [type |-> "data_update_started", data |-> [total |-> 2]],
                   [type |-> "data_update_started"] }
ProgressFrames ==
  { [type |-> "data_update_progress",
     data |-> [done |-> 1, total |-> 2, current_symbol |-> "AAPL"]],
    [type |-> "data_update_progress", data |-> [done |-> 2, total |-> 2]] }
CompleteFrames ==
  { [type |-> "data_update_complete", data |-> [status |-> "success"]],
    [type |-> "data_update_complete",
     data |-> [status |-> "failed", error |-> "boom"]],
    [type |-> "data_update_complete"] }
OtherFrames == { [type |-> "orders_executed"],
                 [type |-> "exit_triggers", exits |-> <<"AAPL">>],
                 [type |-> "heartbeat"] }

\* what arrives on the socket: a text that JSON.parse decodes to a frame, or
\* a text it throws on
Decodable(frames) == { [wellformed |-> TRUE, frame |-> f] : f \in frames }
Garbage == [wellformed |-> FALSE]

AllFrames == StatusFrames \cup ScanFrames \cup StartedFrames \cup ProgressFrames
             \cup CompleteFrames \cup OtherFrames

(***************************************************************************)
(* Sortable tables: ScannerTable (ScannerTable.jsx) and                    *)
(* ClosedPositionsPanel (part_004)                                         *)
(***************************************************************************)
ASC  == "asc"
DESC == "desc"

\* A row field that may be null or missing is <<>>, one that holds v is <<v>>.
Field(r, col) == IF col \in DOMAIN r THEN r[col] ELSE <<>>

\* Sort keys: -Infinity below every number; strings by code-unit order.
NegInfinity == <<0, 0>>
Num(n) == <<1, n>>
StrOrder == <<"", "2024-01-02", "2024-02-01", "aapl", "msft">>
Str(s) == <<1, CHOOSE i \in DOMAIN StrOrder : StrOrder[i] = s>>
toLowerCase(s) == CASE s = "AAPL" -> "aapl"
                    [] s = "MSFT" -> "msft"
                    [] OTHER -> s
\* av < bv
JsLess(av, bv) == av[1] < bv[1] \/ (av[1] = bv[1] /\ av[2] < bv[2])

\* f ?? dflt
NumOr(f, dflt) == IF f = <<>> THEN dflt ELSE Num(f[1])
StrOr(f, dflt) == IF f = <<>> THEN dflt ELSE f[1]

\* a header that only flips between the two directions
nextDir_NoClear(current) == IF current = ASC THEN DESC ELSE ASC

\* first click ascending, second descending, third clears the sort
nextDir(current) ==
  IF current = Null THEN ASC
  ELSE IF current = ASC THEN DESC
  ELSE Null

SORTABLE(t) ==
  IF t = "scanner"
    THEN {"symbol", "price", "week_52_high", "volume", "entry_price"}
    ELSE {"symbol", "entry_date", "exit_date", "entry_price", "exit_price",
          "quantity", "pnl", "pnl_pct"}

getScanSortValue(r, col) ==
  CASE col = "symbol"       -> Str(toLowerCase(StrOr(Field(r, "symbol"), "")))
    [] col = "price"        -> NumOr(Field(r, "price"), NegInfinity)
    [] col = "week_52_high" -> NumOr(Field(r, "week_52_high"), NegInfinity)
    [] col = "volume"       -> NumOr(Field(r, "volume"), NegInfinity)
    [] col = "entry_price"  -> NumOr(Field(r, "price"), NegInfinity)
    [] OTHER                -> Num(0)

getSortValue(row, col) ==
  CASE col = "symbol"      -> Str(toLowerCase(StrOr(Field(row, "symbol"), "")))
    [] col = "entry_date"  -> Str(StrOr(Field(row, "entry_date"), ""))
    [] col = "exit_date"   -> Str(StrOr(Field(row, "exit_date"), ""))
    [] col = "entry_price" -> NumOr(Field(row, "entry_price"), NegInfinity)
    [] col = "exit_price"  -> NumOr(Field(row, "exit_price"), NegInfinity)
    [] col = "quantity"    -> NumOr(Field(row, "quantity"), Num(0))
    [] col = "pnl"         -> NumOr(Field(row, "pnl"), NegInfinity)
    [] col = "pnl_pct"     -> NumOr(Field(row, "pnl_pct"), NegInfinity)
    [] OTHER               -> Num(0)

SortValue(t, r, col) ==
  IF t = "scanner" THEN getScanSortValue(r, col) ELSE getSortValue(r, col)

\* a comparator that never answers 0
compare_NoTies(t, a, b, col, dir) ==
  LET av == SortValue(t, a, col)
      bv == SortValue(t, b, col)
  IN  IF JsLess(bv, av) THEN (IF dir = ASC THEN 1 ELSE -1)
      ELSE (IF dir = ASC THEN -1 ELSE 1)

\* the comparator handed to Array.prototype.sort
compare(t, a, b, col, dir) ==
  LET av == SortValue(t, a, col)
      bv == SortValue(t, b, col)
  IN  IF JsLess(av, bv) THEN (IF dir = ASC THEN -1 ELSE 1)
      ELSE IF JsLess(bv, av) THEN (IF dir = ASC THEN 1 ELSE -1)
      ELSE 0

\* Array.prototype.sort is stable: x goes behind every element it does not
\* compare below
RECURSIVE Insert(_, _, _, _, _)
Insert(t, s, x, col, dir) ==
  IF s = <<>> \/ compare(t, x, s[Len(s)], col, dir) >= 0
    THEN Append(s, x)
    ELSE Append(Insert(t, SubSeq(s, 1, Len(s) - 1), x, col, dir), s[Len(s)])

RECURSIVE ArraySort(_, _, _, _)
ArraySort(t, rs, col, dir) ==
  IF rs = <<>> THEN <<>>
  ELSE Insert(t, ArraySort(t, SubSeq(rs, 1, Len(rs) - 1), col, dir),
              rs[Len(rs)], col, dir)

applySort(t, rs, col, dir) ==
  IF col = Null \/ dir = Null THEN rs ELSE ArraySort(t, rs, col, dir)

\* what the table renders
sorted == applySort(table, rows, sortCol, sortDir)

\* rows the tables are handed (results / positions props)
ScannerRows ==
  { [id |-> 1, symbol |-> <<"AAPL">>, price |-> <<5>>, volume |-> <<>>,
     week_52_high |-> <<7>>],
    [id |-> 2, symbol |-> <<"msft">>, price |-> <<>>, volume |-> <<2>>],
    [id |-> 3, symbol |-> <<>>, price |-> <<5>>, volume |-> <<2>>,
     week_52_high |-> <<>>],
    [id |-> 4, symbol |-> <<"MSFT">>, price |-> <<0>>, volume |-> <<0>>,
     week_52_high |-> <<7>>] }

ClosedRows ==
  { [id |-> 1, symbol |-> <<"AAPL">>, entry_date |-> <<"2024-01-02">>,
     exit_date |-> <<"2024-02-01">>, entry_price |-> <<5>>,
     exit_price |-> <<>>, quantity |-> <<0>>, pnl |-> <<-1>>,
     pnl_pct |-> <<-1>>],
    [id |-> 2, symbol |-> <<"MSFT">>, entry_date |-> <<>>,
     exit_date |-> <<>>, entry_price |-> <<>>, exit_price |-> <<5>>,
     quantity |-> <<>>, pnl |-> <<>>, pnl_pct |-> <<>>],
    [id |-> 3, symbol |-> <<"AAPL">>, entry_date |-> <<"2024-02-01">>,
     exit_date |-> <<"2024-01-02">>, entry_price |-> <<5>>,
     exit_price |-> <<5>>, quantity |-> <<2>>, pnl |-> <<0>>,
     pnl_pct |-> <<0>>],
    [id |-> 4, symbol |-> <<"msft">>, entry_date |-> <<"2024-01-02">>,
     exit_date |-> <<"2024-02-01">>, entry_price |-> <<0>>,
     exit_price |-> <<0>>, quantity |-> <<>>, pnl |-> <<-1>>] }

Tables == {"scanner", "closed"}
RowsOf(t) == IF t = "scanner" THEN ScannerRows ELSE ClosedRows

\* lists of distinct rows
RowLists(t) ==
  { rs \in UNION { [1..n -> RowsOf(t)] : n \in 0..MaxRows } :
      \A i, j \in DOMAIN rs : i # j => rs[i] # rs[j] }

\* headers a user can activate: sortable ones and one that is not
Headers(t) ==
  IF t = "scanner" THEN {"symbol", "price", "volume", "qualified"}
                   ELSE {"symbol", "exit_date", "quantity", "exit_reason"}

\* a third click that clears the direction and leaves the column selected
ClearedSort_DirOnly(current) == [col |-> current.col, dir |-> Null]

\* the third click: setSortCol(null); setSortDir(null)
ClearedSort(current) == [col |-> Null, dir |-> Null]

\* the table's useState initial values
InitialSort(t) ==
  IF t = "scanner" THEN [col |-> Null, dir |-> Null]
                   ELSE [col |-> "exit_date", dir |-> DESC]

(***************************************************************************)
(* Market status of the status bar (part_003:14-39)                        *)
(***************************************************************************)
MinutesPerDay == 1440
OpenMins  == 9 * 60 + 30
CloseMins == 16 * 60

\* d.toLocaleString('en-US', { timeZone: 'America/New_York', weekday, hour,
\* minute }) of a Date whose browser-local fields are day offset k from
\* etNow's day and minute m: the instant is re-expressed in New York time
toLocaleString(etNow, k, m, tz) ==
  LET total == ((etNow.day + k) * MinutesPerDay + m - tz)
                 % (7 * MinutesPerDay)
  IN  [weekday |-> total \div MinutesPerDay, mins |-> total % MinutesPerDay]

\* while (d.getDay() === 0 || d.getDay() === 6) d.setDate(d.getDate() + 1)
RECURSIVE SkipWeekend(_, _)
SkipWeekend(day, k) ==
  IF (day + k) % 7 \in {0, 6} THEN SkipWeekend(day, k + 1) ELSE k

_nextOpenStr(etNow, openMins, tz) ==
  LET k0 == IF openMins <= etNow.mins THEN 1 ELSE 0
  IN  toLocaleString(etNow, SkipWeekend(etNow.day, k0), openMins, tz)

\* a session that still counts 16:00 itself as open
_getMarketStatus_OpenAtClose(e, tz) ==
  IF e.day = 0 \/ e.day = 6 THEN [open |-> FALSE, label |-> "weekend"]
  ELSE IF e.mins < OpenMins
    THEN [open |-> FALSE, label |-> "pre-market",
          nextOpen |-> _nextOpenStr(e, OpenMins, tz)]
  ELSE IF e.mins > CloseMins
    THEN [open |-> FALSE, label |-> "after-hours",
          nextOpen |-> _nextOpenStr(e, OpenMins, tz)]
  ELSE [open |-> TRUE, label |-> "open"]

\* the scanner dot's own check: day >= 1 && day <= 5 && mins >= 570 &&
\* mins < 960
marketOpen(e) == e.day >= 1 /\ e.day <= 5 /\ e.mins >= 570 /\ e.mins < 960

_getMarketStatus(e, tz) ==
  IF e.day = 0 \/ e.day = 6 THEN [open |-> FALSE, label |-> "weekend"]
  ELSE IF e.mins < OpenMins
    THEN [open |-> FALSE, label |-> "pre-market",
          nextOpen |-> _nextOpenStr(e, OpenMins, tz)]
  ELSE IF e.mins >= CloseMins
    THEN [open |-> FALSE, label |-> "after-hours",
          nextOpen |-> _nextOpenStr(e, OpenMins, tz)]
  ELSE [open |-> TRUE, label |-> "open"]

\* the tables and the status bar as first rendered
PanelInit(t, rs, e, tz) ==
  /\ table = t
  /\ rows = rs
  /\ sortCol = InitialSort(t).col
  /\ sortDir = InitialSort(t).dir
  /\ sortLog = <<>>
  /\ et = e
  /\ browserTz = tz
  /\ mkt = _getMarketStatus(e, tz)

(***************************************************************************)
(* Initial state: the component as constructed, before its effects run     *)
(***************************************************************************)
AppInit ==
  /\ unmountedRef = FALSE
  /\ wsRef = NoSocket
  /\ reconnectAttemptRef = 0
  /\ timerCur = FALSE
  /\ timerOrphans = 0
  /\ timerDelay = 0
  /\ sock = [s \in SocketIds |-> "FREE"]
  /\ wsConnected = FALSE
  /\ status = <<>>
  /\ dataUpdateStatus = EmptyObj
  /\ scanResults = <<>>
  /\ lastScanUpdate = NoTime
  /\ positions = <<>>
  /\ config = <<>>
  /\ overrides = EmptyObj
  /\ entryMethods = EmptyObj
  /\ fetchPending = [e \in {"status", "results", "positions", "config",
                            "update"} |-> 0]
  /\ overrideCmds = <<>>
  /\ entryCmds = <<>>
  /\ now = 1
  /\ runLen = 0
  /\ last = [op |-> "init"]

Init == AppInit /\ PanelInit("scanner", <<>>, [day |-> 1, mins |-> OpenMins], 0)

(***************************************************************************)
(* ConnectionManager                                                       *)
(***************************************************************************)
\* new WebSocket(WS_URL); wsRef.current = ws   (the guard of connectWebSocket
\* reads the flag it is handed)
connectWebSocket(unmounted) ==
  IF unmounted
    THEN UNCHANGED <<wsRef, sock>>
    ELSE /\ FreeSockets # {}
         /\ LET s == CHOOSE x \in FreeSockets : \A y \in FreeSockets : x <= y
            IN /\ wsRef' = s
               /\ sock' = [sock EXCEPT ![s] = "CONNECTING"]

\* clearTimeout(reconnectTimerRef.current): whether that timer is still pending
clearTimeout_Noop(pending) == pending

clearTimeout(pending) == FALSE

\* a close() that acts on a socket whatever its readyState
CloseSocket_Unchecked(sk, s) ==
  IF s # NoSocket THEN [sk EXCEPT ![s] = "CLOSING"] ELSE sk

\* ws.close() as called by the client: an open or connecting socket starts
\* closing, a closing or closed one is left as it is
CloseSocket(sk, s) ==
  IF s # NoSocket /\ sk[s] \in {"CONNECTING", "OPEN"}
    THEN [sk EXCEPT ![s] = "CLOSING"] ELSE sk

\* fetchX() is called: one more request in flight
IssueFetch(fp, endpoints) ==
  [e \in DOMAIN fp |-> IF e \in endpoints THEN fp[e] + 1 ELSE fp[e]]
CanFetch(endpoints) == \A e \in endpoints : fetchPending[e] < MaxFetch

\* The two mount effects: connect, and fetch the initial data.
RunEffects ==
  /\ CanFetch({"status", "results", "positions", "config"})
  /\ unmountedRef' = FALSE
  /\ connectWebSocket(FALSE)
  /\ fetchPending' = IssueFetch(fetchPending,
                                {"status", "results", "positions", "config"})
  /\ UNCHANGED <<reconnectAttemptRef, timerCur, timerOrphans, timerDelay,
                 wsConnected, runLen, now>>
  /\ UNCHANGED frameVars /\ UNCHANGED mutVars
  /\ UNCHANGED panelVars

Mount ==
  /\ wsRef = NoSocket /\ ~unmountedRef
  /\ RunEffects
  /\ last' = [op |-> "mount"]

\* The effects run again after their cleanup ran.
Remount ==
  /\ unmountedRef
  /\ RunEffects
  /\ last' = [op |-> "remount"]

\* The body of the effect's cleanup
Cleanup ==
  /\ unmountedRef' = TRUE
  /\ timerCur' = clearTimeout(timerCur)
  /\ sock' = CloseSocket(sock, wsRef)
  /\ UNCHANGED <<wsRef, reconnectAttemptRef, timerOrphans, timerDelay,
                 wsConnected, fetchPending, runLen, now>>
  /\ UNCHANGED frameVars /\ UNCHANGED mutVars
  /\ UNCHANGED panelVars

\* The effect's cleanup: dispose()
Dispose ==
  /\ ~unmountedRef /\ wsRef # NoSocket
  /\ Cleanup
  /\ last' = [op |-> "dispose", timerPending |-> timerCur,
              socketLive |-> sock[wsRef] \in {"CONNECTING", "OPEN"}]

\* The cleanup function is called once more, the effect not having run
\* again since
DisposeAgain ==
  /\ unmountedRef /\ wsRef # NoSocket
  /\ Cleanup
  /\ last' = [op |-> "disposeAgain", readyState |-> sock[wsRef]]

\* ws.onopen
OnOpen(s) ==
  /\ sock[s] = "CONNECTING"
  /\ IF unmountedRef
       THEN /\ sock' = [sock EXCEPT ![s] = "CLOSING"]
            /\ UNCHANGED <<wsConnected, reconnectAttemptRef, runLen>>
       ELSE /\ sock' = [sock EXCEPT ![s] = "OPEN"]
            /\ wsConnected' = TRUE
            /\ reconnectAttemptRef' = 0
            /\ runLen' = 0
  /\ last' = [op |-> "onopen", socket |-> s, unmounted |-> unmountedRef]
  /\ UNCHANGED <<unmountedRef, wsRef, timerCur, timerOrphans, timerDelay,
                 fetchPending, now>>
  /\ UNCHANGED frameVars /\ UNCHANGED mutVars
  /\ UNCHANGED panelVars

\* an error handler that schedules a reconnect of its own
OnError_Reconnects(s) ==
  /\ sock[s] \in {"CONNECTING", "OPEN", "CLOSING"}
  /\ ~unmountedRef /\ ~timerCur
  /\ timerCur' = TRUE
  /\ last' = [op |-> "onerror", socket |-> s]
  /\ UNCHANGED <<unmountedRef, wsRef, reconnectAttemptRef, timerOrphans,
                 timerDelay, sock, wsConnected, fetchPending, runLen, now>>
  /\ UNCHANGED frameVars /\ UNCHANGED mutVars
  /\ UNCHANGED panelVars

\* ws.onerror: logs only
OnError(s) ==
  /\ sock[s] \in {"CONNECTING", "OPEN", "CLOSING"}
  /\ last' = [op |-> "onerror", socket |-> s]
  /\ UNCHANGED <<unmountedRef, wsRef, reconnectAttemptRef, timerCur,
                 timerOrphans, timerDelay, sock, wsConnected, fetchPending,
                 runLen, now>>
  /\ UNCHANGED frameVars /\ UNCHANGED mutVars
  /\ UNCHANGED panelVars

\* a close that is counted twice, as when the error were counted too
NextAttempt_CountsError(attempt) == attempt + 2

\* reconnectAttemptRef.current += 1
NextAttempt(attempt) == attempt + 1

\* whether onclose returns without scheduling a reconnect
GivesUp_AfterThreeAttempts(unmounted, attempt) == unmounted \/ attempt >= 3

\* if (unmountedRef.current) return;  -- the attempt count is not consulted
GivesUp(unmounted, attempt) == unmounted

\* The transport is gone (closed by either side, or the connection attempt
\* failed): the socket is CLOSED and ws.onclose runs.
OnClose(s) ==
  /\ sock[s] \in {"CONNECTING", "OPEN", "CLOSING"}
  /\ sock' = [sock EXCEPT ![s] = "FREE"]
  /\ IF GivesUp(unmountedRef, reconnectAttemptRef)
       THEN UNCHANGED <<wsConnected, reconnectAttemptRef, timerCur,
                        timerOrphans, timerDelay, runLen>>
       ELSE /\ reconnectAttemptRef < MaxAttempt
            /\ timerCur => timerOrphans < MaxOrphanTimers
            /\ wsConnected' = FALSE
            /\ timerDelay' = getReconnectDelay(reconnectAttemptRef)
            /\ reconnectAttemptRef' = NextAttempt(reconnectAttemptRef)
            /\ timerOrphans' = timerOrphans + (IF timerCur THEN 1 ELSE 0)
            /\ timerCur' = TRUE
            /\ runLen' = runLen + 1
  /\ last' = [op |-> "onclose", socket |-> s, unmounted |-> unmountedRef,
              attempt |-> reconnectAttemptRef, wasOpen |-> sock[s] = "OPEN",
              afterError |-> (last.op = "onerror" /\ last.socket = s)]
  /\ UNCHANGED <<unmountedRef, wsRef, fetchPending, now>>
  /\ UNCHANGED frameVars /\ UNCHANGED mutVars
  /\ UNCHANGED panelVars

\* A reconnect timer expires and runs connectWebSocket.
TimerFire(which) ==
  /\ IF which = "ref"
       THEN timerCur /\ timerCur' = FALSE /\ UNCHANGED timerOrphans
       ELSE timerOrphans > 0 /\ timerOrphans' = timerOrphans - 1
            /\ UNCHANGED timerCur
  /\ connectWebSocket(unmountedRef)
  /\ last' = [op |-> "timer", which |-> which, unmounted |-> unmountedRef]
  /\ UNCHANGED <<unmountedRef, reconnectAttemptRef, timerDelay, wsConnected,
                 fetchPending, runLen, now>>
  /\ UNCHANGED frameVars /\ UNCHANGED mutVars
  /\ UNCHANGED panelVars

(***************************************************************************)
(* MessageRouter / StatusAggregator: ws.onmessage                          *)
(***************************************************************************)
\* data.data, read through ?. : a frame without data reads as an empty object
FrameData(f) == IF "data" \in DOMAIN f THEN f.data ELSE EmptyObj

\* new Date().toISOString()
IsoString(t) == ToString(t)

\* setStatus(data.data)
StatusOf(f) == IF "data" \in DOMAIN f THEN <<f.data>> ELSE <<>>

\* the piggybacked sub-object: merged when present
StatusMerge_Overwrite(prev, f) ==
  IF "data_update" \in DOMAIN FrameData(f) THEN FrameData(f).data_update ELSE prev

StatusMerge(prev, f) ==
  IF "data_update" \in DOMAIN FrameData(f)
    THEN Spread(prev, FrameData(f).data_update) ELSE prev

\* a started frame merged into the slice, as the other data_update frames are
StartedSlice_Merged(prev, f) ==
  Spread(prev, [status |-> "running",
                total |-> GetNum(FrameData(f), "total"), done |-> 0])

\* setDataUpdateStatus({ status: 'running', total: ..., done: 0 }): an object,
\* not an updater; the previous slice is not read
StartedSlice(prev, f) ==
  [status |-> "running", total |-> GetNum(FrameData(f), "total"), done |-> 0]

\* a router that drops progress once the update is no longer running
ProgressMerge_StaleGuard(prev, f) ==
  IF Get(prev, "status") \notin {Undefined, "running"} THEN prev
  ELSE Spread(prev, [status |-> "running",
                     done |-> GetNum(FrameData(f), "done"),
                     total |-> GetNum(FrameData(f), "total"),
                     current_symbol |-> Get(FrameData(f), "current_symbol")])

\* data_update_progress: no look at the slice's current status
ProgressMerge(prev, f) ==
  Spread(prev, [status |-> "running",
                done |-> GetNum(FrameData(f), "done"),
                total |-> GetNum(FrameData(f), "total"),
                current_symbol |-> Get(FrameData(f), "current_symbol")])

\* a completion that stamps last_update whatever its status
CompleteMerge_AlwaysStamps(prev, f, t) ==
  Spread(prev, [status |-> JsOr(Get(FrameData(f), "status"), "success"),
                error  |-> JsOr(Get(FrameData(f), "error"), Null),
                last_update |-> IsoString(t)])

CompleteMerge(prev, f, t) ==
  Spread(prev, [status |-> JsOr(Get(FrameData(f), "status"), "success"),
                error  |-> JsOr(Get(FrameData(f), "error"), Null),
                last_update |-> IF Get(FrameData(f), "status") = "success"
                                  THEN IsoString(t)
                                  ELSE Get(prev, "last_update")])

\* a chain whose last branch clears the slice
RouteDataUpdate_ClearsOnUnknown(prev, f, t) ==
  CASE f.type = "status"               -> StatusMerge(prev, f)
    [] f.type = "data_update_started"  -> StartedSlice(prev, f)
    [] f.type = "data_update_progress" -> ProgressMerge(prev, f)
    [] f.type = "data_update_complete" -> CompleteMerge(prev, f, t)
    [] f.type \in {"scan_results", "orders_executed"} -> prev
    [] OTHER                           -> EmptyObj

\* the next value of dataUpdateStatus after frame f
RouteDataUpdate(prev, f, t) ==
  CASE f.type = "status"               -> StatusMerge(prev, f)
    [] f.type = "data_update_started"  -> StartedSlice(prev, f)
    [] f.type = "data_update_progress" -> ProgressMerge(prev, f)
    [] f.type = "data_update_complete" -> CompleteMerge(prev, f, t)
    [] OTHER                           -> prev

\* data.results || []
ResultsOf(f) == IF "results" \in DOMAIN f THEN f.results ELSE <<>>

\* a router that keeps the rows a scan_results frame does not mention
ScanReplace_Merged(prev, f) ==
  ResultsOf(f) \o SelectSeq(prev, LAMBDA r :
                  \A i \in DOMAIN ResultsOf(f) : ResultsOf(f)[i].symbol # r.symbol)

\* setScanResults(data.results || []): the previous rows are not read
ScanReplace(prev, f) == ResultsOf(f)

\* a router that takes the payload of any frame for the status view
RoutesToStatus_AnyPayload(f) == "data" \in DOMAIN f

\* if (data.type === 'status') setStatus(data.data)
RoutesToStatus(f) == f.type = "status"

\* a hint that refreshes the positions only
RefetchOnOrders_PositionsOnly == {"positions"}

\* orders_executed: fetchPositions(); fetchStatus()
RefetchOnOrders == {"positions", "status"}

\* The handler reads no flag of the component: a frame is routed whenever the
\* browser delivers it, and it delivers message events on OPEN sockets only.
\* a handler that treats an undecodable frame as a broken connection
OnParseError_Closes(sk, s) == CloseSocket(sk, s)

\* catch (parseErr) { console.warn(...); return; }: the socket is not touched
OnParseError(sk, s) == sk

OnMessage(s, m) ==
  /\ sock[s] = "OPEN"
  /\ IF ~m.wellformed
       THEN /\ sock' = OnParseError(sock, s)
            /\ UNCHANGED <<status, dataUpdateStatus, scanResults,
                           lastScanUpdate, fetchPending>>
       ELSE LET f == m.frame IN
            /\ UNCHANGED sock
            /\ status' = IF RoutesToStatus(f) THEN StatusOf(f) ELSE status
            /\ dataUpdateStatus' = RouteDataUpdate(dataUpdateStatus, f, now)
            /\ scanResults' = IF f.type = "scan_results"
                                THEN ScanReplace(scanResults, f)
                                ELSE scanResults
            /\ lastScanUpdate' = IF f.type = "scan_results" THEN now
                                                            ELSE lastScanUpdate
            /\ IF f.type = "orders_executed"
                 THEN /\ CanFetch(RefetchOnOrders)
                      /\ fetchPending' =
                           IssueFetch(fetchPending, RefetchOnOrders)
                 ELSE UNCHANGED fetchPending
  /\ last' = [op |-> "onmessage", socket |-> s, msg |-> m,
              unmounted |-> unmountedRef,
              before |-> [slice |-> dataUpdateStatus, results |-> scanResults]]
  /\ UNCHANGED <<unmountedRef, wsRef, reconnectAttemptRef, timerCur,
                 timerOrphans, timerDelay, wsConnected, positions, config,
                 now, runLen>>
  /\ UNCHANGED mutVars /\ UNCHANGED panelVars

(***************************************************************************)
(* Full-snapshot refetches: the response of a GET arrives                  *)
(***************************************************************************)
\* a response: fetch() or json() throws, or a JSON body arrives, with a 2xx
\* status (response.ok) or with an error status; no fetchX reads response.ok
Threw == [threw |-> TRUE]
Bodies(objs) == { [threw |-> FALSE, ok |-> TRUE, body |-> o] : o \in objs }
HttpErrors(objs) == { [threw |-> FALSE, ok |-> FALSE, body |-> o] : o \in objs }

FetchDone(endpoint, r) ==
  /\ fetchPending[endpoint] > 0
  /\ fetchPending' = [fetchPending EXCEPT ![endpoint] = @ - 1]
  /\ last' = [op |-> "fetched", endpoint |-> endpoint, response |-> r,
              unmounted |-> unmountedRef]
  /\ UNCHANGED <<unmountedRef, wsRef, reconnectAttemptRef, timerCur,
                 timerOrphans, timerDelay, sock, wsConnected,
                 dataUpdateStatus, now, runLen>>
  /\ UNCHANGED mutVars /\ UNCHANGED panelVars

\* fetchStatus: setStatus(data)
FetchStatusDone(r) ==
  /\ FetchDone("status", r)
  /\ status' = IF r.threw THEN status ELSE <<r.body>>
  /\ UNCHANGED <<scanResults, lastScanUpdate, positions, config>>

\* fetchScanResults: setScanResults(data.results || []); setLastScanUpdate
FetchScanResultsDone(r) ==
  /\ FetchDone("results", r)
  /\ scanResults' = IF r.threw THEN scanResults ELSE ResultsOf(r.body)
  /\ lastScanUpdate' = IF r.threw THEN lastScanUpdate ELSE now
  /\ UNCHANGED <<status, positions, config>>

\* fetchPositions: setPositions(data.positions || [])
FetchPositionsDone(r) ==
  /\ FetchDone("positions", r)
  /\ positions' = IF r.threw THEN positions
                  ELSE IF "positions" \in DOMAIN r.body THEN r.body.positions
                  ELSE <<>>
  /\ UNCHANGED <<status, scanResults, lastScanUpdate, config>>

\* fetchConfig: setConfig(data.config)
FetchConfigDone(r) ==
  /\ FetchDone("config", r)
  /\ config' = IF r.threw THEN config
               ELSE IF "config" \in DOMAIN r.body THEN <<r.body.config>>
               ELSE <<>>
  /\ UNCHANGED <<status, scanResults, lastScanUpdate, positions>>

(***************************************************************************)
(* The data-refresh trigger: handleUpdateDataNow (part_003:346-361)        *)
(***************************************************************************)
\* what fetch(`${API_BASE}/data/update`, { method: 'POST' }) may come to
UpdateAnswers == { Threw,
                   [threw |-> FALSE, ok |-> TRUE, status |-> 200],
                   [threw |-> FALSE, ok |-> FALSE, status |-> 409],
                   [threw |-> FALSE, ok |-> FALSE, status |-> 500] }

\* the alert() the handler raises, Null when it raises none
UpdateAlert(r) ==
  IF r.threw THEN "Error starting data update"
  ELSE IF r.status = 409 THEN "Data update already in progress"
  ELSE IF ~r.ok THEN "Failed to start update"
  ELSE Null

\* a trigger that asks again when the server is busy
UpdateRetries_WhenBusy(r) == ~r.threw /\ r.status = 409

\* no branch of the handler calls fetch a second time
UpdateRetries(r) == FALSE

\* the button is pressed: the POST is sent
handleUpdateDataNow ==
  /\ CanFetch({"update"})
  /\ fetchPending' = IssueFetch(fetchPending, {"update"})
  /\ last' = [op |-> "updateDataNow"]
  /\ UNCHANGED <<wsConnected, now>>
  /\ UNCHANGED connVars /\ UNCHANGED frameVars /\ UNCHANGED mutVars
  /\ UNCHANGED panelVars

\* the POST resolves and the rest of the handler runs
UpdateDataResponse(r) ==
  /\ fetchPending["update"] > 0
  /\ fetchPending' = [fetchPending EXCEPT
                        !["update"] = @ - 1 + (IF UpdateRetries(r) THEN 1 ELSE 0)]
  /\ last' = [op |-> "updateResponse", response |-> r,
              alert |-> UpdateAlert(r)]
  /\ UNCHANGED <<wsConnected, now>>
  /\ UNCHANGED connVars /\ UNCHANGED frameVars /\ UNCHANGED mutVars
  /\ UNCHANGED panelVars

\* time passes
Tick ==
  /\ now < MaxNow
  /\ now' = now + 1
  /\ last' = [op |-> "tick"]
  /\ UNCHANGED <<unmountedRef, wsRef, reconnectAttemptRef, timerCur,
                 timerOrphans, timerDelay, sock, wsConnected, fetchPending,
                 runLen>>
  /\ UNCHANGED frameVars /\ UNCHANGED mutVars
  /\ UNCHANGED panelVars

(***************************************************************************)
(* MutationCoordinator: optimistic overlays and their commands             *)
(*                                                                         *)
(* A command in flight keeps, beside what the request carries (sym, val),  *)
(* history fields no handler reads: what was shown before it was applied   *)
(* (prev), how many commands on the same symbol and field were in flight   *)
(* together with it (overlaps: 0, 1, or 2 for more), and, for a command    *)
(* that overlapped exactly one other, that one's response if it arrived    *)
(* first (heard).                                                          *)
(***************************************************************************)
Outcomes == {"ok", "http_error", "network_error"}

\* overrides[r.symbol] || false
DisplayedOverride(ov, sym) == IF sym \in DOMAIN ov THEN ov[sym] ELSE FALSE

\* config?.default_entry_method
ConfigDefault == IF config = <<>> THEN Undefined
                 ELSE Get(config[1], "default_entry_method")

\* the same chain with the server's value ahead of the local overlay
DisplayedEntry_ServerFirst(em, r) ==
  JsOr(JsOr(JsOr(r.entry_method, Get(em, r.symbol)), ConfigDefault),
       "prev_close")

\* entryMethods[r.symbol] || r.entry_method || config?.default_entry_method
\*   || 'prev_close'
DisplayedEntry(em, r) ==
  JsOr(JsOr(JsOr(Get(em, r.symbol), r.entry_method), ConfigDefault),
       "prev_close")

Rows == { scanResults[i] : i \in DOMAIN scanResults }

InFlight == Len(overrideCmds) + Len(entryCmds)

\* the commands of q on symbol sym, and q with each of them marked as
\* overlapping one more command
OnSym(q, sym) == { i \in DOMAIN q : q[i].sym = sym }
Overlapped(q, sym) ==
  [i \in DOMAIN q |->
     IF q[i].sym # sym THEN q[i]
     ELSE IF q[i].overlaps = 0 THEN [q[i] EXCEPT !.overlaps = 1]
     ELSE [q[i] EXCEPT !.overlaps = 2, !.heard = <<>>]]

\* q without its i-th command; a command that overlapped this one and no
\* other has heard its response (overlaps: 0, 1 or 2 for more than one)
Resolved(q, i, ok) ==
  LET told == [j \in DOMAIN q |->
                 IF j # i /\ q[j].sym = q[i].sym /\ q[j].overlaps = 1
                   THEN [q[j] EXCEPT !.heard =
                           <<[ok |-> ok, val |-> q[i].val, kind |-> q[i].kind,
                              prev |-> q[i].prev, earlier |-> i < j]>>]
                   ELSE q[j]]
  IN [j \in 1..(Len(q) - 1) |-> IF j < i THEN told[j] ELSE told[j + 1]]

\* the value the failure branch of handleOverrideToggle writes back
RevertedOverride_Attempted(checked) == checked

RevertedOverride(checked) == ~checked

\* an updater that forgets to spread the previous overlay
OptimisticOverride_Replaces(ov, symbol, checked) == [k \in {symbol} |-> checked]

\* a handler that waits for the server before it shows the change
OptimisticOverride_Deferred(ov, symbol, checked) == ov

\* setOverrides(prev => ({ ...prev, [symbol]: checked })), before the fetch
OptimisticOverride(ov, symbol, checked) ==
  Spread(ov, [k \in {symbol} |-> checked])

handleOverrideToggle(symbol, checked) ==
  /\ InFlight < MaxPending
  /\ overrides' = OptimisticOverride(overrides, symbol, checked)
  /\ overrideCmds' =
       Append(Overlapped(overrideCmds, symbol),
              [kind |-> "toggle", sym |-> symbol, val |-> checked,
               prev |-> DisplayedOverride(overrides, symbol),
               overlaps |-> Min(Cardinality(OnSym(overrideCmds, symbol)), 2),
               heard |-> <<>>])
  /\ last' = [op |-> "toggle", sym |-> symbol, val |-> checked]
  /\ UNCHANGED <<entryMethods, entryCmds, wsConnected, fetchPending, now>>
  /\ UNCHANGED connVars /\ UNCHANGED frameVars
  /\ UNCHANGED panelVars

\* the POST of an override toggle resolves
OverrideResponse(i, outcome) ==
  /\ i \in DOMAIN overrideCmds
  /\ LET c == overrideCmds[i] IN
       /\ overrides' = IF outcome = "ok" THEN overrides
                       ELSE Spread(overrides,
                                   [k \in {c.sym} |-> RevertedOverride(c.val)])
       /\ overrideCmds' = Resolved(overrideCmds, i, outcome = "ok")
       /\ last' = [op |-> "overrideResponse", ok |-> outcome = "ok",
                   cmd |-> c,
                   pendingOnSym |-> Cardinality(OnSym(overrideCmds, c.sym)) - 1]
  /\ UNCHANGED <<entryMethods, entryCmds, wsConnected, fetchPending, now>>
  /\ UNCHANGED connVars /\ UNCHANGED frameVars
  /\ UNCHANGED panelVars

handleEntryMethodChange(symbol, method) ==
  /\ InFlight < MaxPending
  /\ entryMethods' = Spread(entryMethods, [k \in {symbol} |-> method])
  /\ entryCmds' =
       Append(Overlapped(entryCmds, symbol),
              [kind |-> "set", sym |-> symbol, val |-> method,
               prev |-> Get(entryMethods, symbol),
               overlaps |-> Min(Cardinality(OnSym(entryCmds, symbol)), 2),
               heard |-> <<>>])
  /\ last' = [op |-> "entryMethod", sym |-> symbol, val |-> method]
  /\ UNCHANGED <<overrides, overrideCmds, wsConnected, fetchPending, now>>
  /\ UNCHANGED connVars /\ UNCHANGED frameVars
  /\ UNCHANGED panelVars

handleResetEntryMethod(symbol) ==
  /\ InFlight < MaxPending
  /\ entryMethods' = Delete(entryMethods, symbol)
  /\ entryCmds' =
       Append(Overlapped(entryCmds, symbol),
              [kind |-> "reset", sym |-> symbol, val |-> Undefined,
               prev |-> Get(entryMethods, symbol),
               overlaps |-> Min(Cardinality(OnSym(entryCmds, symbol)), 2),
               heard |-> <<>>])
  /\ last' = [op |-> "resetEntryMethod", sym |-> symbol]
  /\ UNCHANGED <<overrides, overrideCmds, wsConnected, fetchPending, now>>
  /\ UNCHANGED connVars /\ UNCHANGED frameVars
  /\ UNCHANGED panelVars

\* what the failure branch of handleEntryMethodChange leaves of the overlay
RevertedEntry_Restore(em, c) ==
  IF c.prev = Undefined THEN Delete(em, c.sym)
                        ELSE Spread(em, [k \in {c.sym} |-> c.prev])

RevertedEntry_Keep(em, c) == em

RevertedEntry(em, c) == Delete(em, c.sym)

\* a reset that puts the override back when the server refuses
ResetFailed_Restores(em, c) ==
  IF c.prev = Undefined THEN em ELSE Spread(em, [k \in {c.sym} |-> c.prev])

\* the failure branches of handleResetEntryMethod: console.error only
ResetFailed(em, c) == em

\* the POST of an entry-method assignment or reset resolves
EntryResponse(i, outcome) ==
  /\ i \in DOMAIN entryCmds
  /\ LET c == entryCmds[i] IN
       /\ entryMethods' = IF outcome = "ok" THEN entryMethods
                          ELSE IF c.kind = "reset"
                            THEN ResetFailed(entryMethods, c)
                            ELSE RevertedEntry(entryMethods, c)
       /\ entryCmds' = Resolved(entryCmds, i, outcome = "ok")
       /\ last' = [op |-> "entryResponse", ok |-> outcome = "ok",
                   cmd |-> c,
                   pendingOnSym |-> Cardinality(OnSym(entryCmds, c.sym)) - 1]
  /\ UNCHANGED <<overrides, overrideCmds, wsConnected, fetchPending, now>>
  /\ UNCHANGED connVars /\ UNCHANGED frameVars
  /\ UNCHANGED panelVars

(***************************************************************************)
(* The connection over one mount of the component: dispose is terminal.    *)
(***************************************************************************)
ConnMsgs == {Garbage} \cup Decodable({
   [type |-> "status",
    data |-> [scanner_running |-> TRUE,
              data_update |-> [status |-> "running", done |-> 1, total |-> 2]]],
   [type |-> "scan_results",
    results |-> <<[symbol |-> "AAPL", entry_method |-> Null]>>],
   [type |-> "orders_executed"] })

ConnStep ==
  \/ Dispose
  \/ \E s \in SocketIds : OnOpen(s)
  \/ \E s \in SocketIds : OnError(s)
  \/ \E s \in SocketIds : OnClose(s)
  \/ \E w \in {"ref", "orphan"} : TimerFire(w)
  \/ \E s \in SocketIds : \E m \in ConnMsgs : OnMessage(s, m)
  \/ \E r \in {Threw} \cup Bodies({[scanner_running |-> FALSE]}) :
        FetchStatusDone(r)
  \/ \E r \in {Threw} \cup Bodies({[positions |-> <<[symbol |-> "MSFT"]>>]}) :
        FetchPositionsDone(r)

Next == Mount \/ ConnStep

Spec == Init /\ [][Next]_vars

\* setTimeout: a timer that stays pending does expire and run its callback
SpecLive == Init /\ [][Next]_vars /\ WF_vars(TimerFire("ref"))

\* The same, with the cleanup free to be called again.
NextDisposeAgain == Mount \/ ConnStep \/ DisposeAgain

SpecDispose == Init /\ [][NextDisposeAgain]_vars

\* The same, with the effects free to run again after a cleanup.
NextRemount == Mount \/ Remount \/ ConnStep

SpecRemount == Init /\ [][NextRemount]_vars

(***************************************************************************)
(* A table and its header clicks                                           *)
(***************************************************************************)
\* a header that carries the direction over to the new column
DirForNewColumn_Keeps(current) == IF current = Null THEN ASC ELSE current

\* setSortCol(col); setSortDir(ASC)
DirForNewColumn(current) == ASC

handleSort(col) ==
  /\ Len(sortLog) < MaxClicks
  /\ IF col \notin SORTABLE(table) THEN UNCHANGED <<sortCol, sortDir>>
     ELSE IF sortCol = col
       THEN LET next == nextDir(sortDir)
            IN  IF next = Null
                  THEN LET c == ClearedSort([col |-> sortCol, dir |-> sortDir])
                       IN  sortCol' = c.col /\ sortDir' = c.dir
                               ELSE sortDir' = next /\ UNCHANGED sortCol
     ELSE sortCol' = col /\ sortDir' = DirForNewColumn(sortDir)
  /\ sortLog' = Append(sortLog, [col |-> col, fromCol |-> sortCol,
                                 fromDir |-> sortDir])
  /\ last' = [op |-> "handleSort", col |-> col]
  /\ UNCHANGED <<table, rows, et, mkt, browserTz>>
  /\ UNCHANGED <<wsConnected, fetchPending, now>>
  /\ UNCHANGED connVars /\ UNCHANGED frameVars /\ UNCHANGED mutVars

SortInit ==
  /\ AppInit
  /\ \E t \in Tables : \E rs \in RowLists(t) :
       PanelInit(t, rs, [day |-> 1, mins |-> OpenMins], 0)

SortNext == \E col \in Headers(table) : handleSort(col)

SpecSort == SortInit /\ [][SortNext]_vars

(***************************************************************************)
(* The status bar re-renders on its interval (part_003:34-41)              *)
(***************************************************************************)
\* minutes by which the browser's zone is ahead of America/New_York:
\* New York itself, UTC in winter, Los Angeles
BrowserZones == {0, 300, -180}

\* one minute later on the exchange-local clock
NextMinute(e) ==
  IF e.mins + 1 < MinutesPerDay THEN [day |-> e.day, mins |-> e.mins + 1]
                                ELSE [day |-> (e.day + 1) % 7, mins |-> 0]

\* setInterval(() => setTick(t => t + 1), 1000): the bar renders again and
\* reads the clock; renders within one minute read the same hour and minute
StatusBarTick ==
  /\ et' = NextMinute(et)
  /\ mkt' = _getMarketStatus(et', browserTz)
  /\ last' = [op |-> "render"]
  /\ UNCHANGED <<table, rows, sortCol, sortDir, sortLog, browserTz>>
  /\ UNCHANGED <<wsConnected, fetchPending, now>>
  /\ UNCHANGED connVars /\ UNCHANGED frameVars /\ UNCHANGED mutVars

ClockInit ==
  /\ AppInit
  /\ \E tz \in BrowserZones :
       PanelInit("scanner", <<>>, [day |-> 0, mins |-> 0], tz)

ClockNext == StatusBarTick

SpecClock == ClockInit /\ [][ClockNext]_vars

(***************************************************************************)
(* The four refetches and what the server may answer them with.            *)
(***************************************************************************)
\* the JSON body of an error response
ErrorBody == [detail |-> "Internal Server Error"]

FetchFrames == Decodable({
   [type |-> "orders_executed"],
   [type |-> "scan_results",
    results |-> <<[symbol |-> "MSFT", entry_method |-> Null]>>] })

Answers(obj) == {Threw} \cup Bodies({obj}) \cup HttpErrors({ErrorBody})

FetchNext ==
  \/ Mount
  \/ \E s \in SocketIds : OnOpen(s)
  \/ \E s \in SocketIds : \E m \in FetchFrames : OnMessage(s, m)
  \/ \E r \in Answers([scanner_running |-> TRUE]) : FetchStatusDone(r)
  \/ \E r \in Answers([results |-> <<[symbol |-> "AAPL",
                                        entry_method |-> Null]>>]) :
        FetchScanResultsDone(r)
  \/ \E r \in Answers([positions |-> <<[symbol |-> "MSFT"]>>]) :
        FetchPositionsDone(r)
  \/ \E r \in Answers([config |-> [default_entry_method |-> "market_open"]]) :
        FetchConfigDone(r)

SpecFetch == Init /\ [][FetchNext]_vars

(***************************************************************************)
(* The router over every slice of client state: frames of each kind while  *)
(* a status, positions and local overlays are held.                        *)
(***************************************************************************)
RouterRows == <<[symbol |-> "AAPL", entry_method |-> "limit_1pct"],
                [symbol |-> "MSFT", entry_method |-> Null]>>

RouterMsgs == Decodable({
   [type |-> "status",
    data |-> [scanner_running |-> TRUE,
              data_update |-> [status |-> "idle", last_update |-> "srv"]]],
   [type |-> "scan_results", results |-> RouterRows],
   [type |-> "scan_results",
    results |-> <<[symbol |-> "AAPL", entry_method |-> Null]>>],
   [type |-> "data_update_started", data |-> [total |-> 2]],
   [type |-> "data_update_progress",
    data |-> [done |-> 1, total |-> 2, current_symbol |-> "AAPL"]],
   [type |-> "data_update_complete",
    data |-> [status |-> "failed", error |-> "boom"]],
   [type |-> "exit_triggers", exits |-> <<"AAPL">>],
   [type |-> "heartbeat"] })

RouterNext ==
  \/ Mount
  \/ \E s \in SocketIds : OnOpen(s)
  \/ \E s \in SocketIds : \E m \in RouterMsgs : OnMessage(s, m)
  \/ \E r \in Bodies({[positions |-> <<[symbol |-> "MSFT"]>>]}) :
        FetchPositionsDone(r)
  \/ handleOverrideToggle("AAPL", TRUE)
  \/ handleEntryMethodChange("AAPL", "market_open")
  \/ Tick

SpecRouter == Init /\ [][RouterNext]_vars

(***************************************************************************)
(* The data-refresh trigger beside the frames that report the refresh.     *)
(***************************************************************************)
UpdateFrames == Decodable({
   [type |-> "data_update_started", data |-> [total |-> 2]],
   [type |-> "data_update_progress",
    data |-> [done |-> 1, total |-> 2, current_symbol |-> "AAPL"]],
   [type |-> "data_update_complete", data |-> [status |-> "success"]] })

UpdateNext ==
  \/ Mount
  \/ \E s \in SocketIds : OnOpen(s)
  \/ \E s \in SocketIds : \E m \in UpdateFrames : OnMessage(s, m)
  \/ handleUpdateDataNow
  \/ \E r \in UpdateAnswers : UpdateDataResponse(r)
  \/ Tick

SpecUpdate == Init /\ [][UpdateNext]_vars

(***************************************************************************)
(* C1..C3: ConnectionManager                                               *)
(***************************************************************************)
\* The schedule as the specification writes it out, attempt 0 first.
ScheduleLiteral == <<1000, 2000, 4000, 8000, 16000, 30000>>
ScheduledDelay(k) ==
  IF k + 1 >= Len(ScheduleLiteral) THEN ScheduleLiteral[Len(ScheduleLiteral)]
                                   ELSE ScheduleLiteral[k + 1]

\* C1: in a run of closes with no successful open in between, the K-th
\* reconnect (K from 0) is scheduled with delay min(1000 * 2^K, 30000), the
\* attempt counter is the number of reconnects scheduled in the run, and a
\* successful open starts a new run, whose first delay is 1000 again.
C1_BackoffSchedule ==
  /\ reconnectAttemptRef = runLen
  /\ runLen > 0 => timerDelay = ScheduledDelay(runLen - 1)
  /\ (last.op = "onclose" /\ ~last.unmounted /\ last.wasOpen)
       => timerDelay = 1000

C1_Witness ==
  /\ last.op = "onclose"
  /\ runLen >= 7
  /\ timerDelay = 30000

C3_NoMutationAfterDispose ==
  [][ (unmountedRef /\ last'.op \in {"onopen", "onerror", "onclose", "timer",
                                    "onmessage"})
        => UNCHANGED clientState ]_vars

(***************************************************************************)
(* The overlays and their commands, over the data the first fetches bring. *)
(***************************************************************************)
MutSymbols == {"AAPL"}
MutMethods == {"market_open", "limit_1pct"}
MutResults == { <<[symbol |-> "AAPL", entry_method |-> Null]>>,
                <<[symbol |-> "AAPL", entry_method |-> "limit_1pct"],
                  [symbol |-> "MSFT", entry_method |-> Null]>> }

MutNext ==
  \/ Mount
  \/ \E r \in Bodies({[results |-> l] : l \in MutResults}) :
        FetchScanResultsDone(r)
  \/ \E r \in Bodies({[config |-> [default_entry_method |-> "market_open"]]}) :
        FetchConfigDone(r)
  \/ \E sym \in MutSymbols, checked \in BOOLEAN :
        handleOverrideToggle(sym, checked)
  \/ \E i \in 1..MaxPending, o \in Outcomes : OverrideResponse(i, o)
  \/ \E sym \in MutSymbols, m \in MutMethods : handleEntryMethodChange(sym, m)
  \/ \E sym \in MutSymbols : handleResetEntryMethod(sym)
  \/ \E i \in 1..MaxPending, o \in Outcomes : EntryResponse(i, o)

SpecMut == Init /\ [][MutNext]_vars

(***************************************************************************)
(* Commands in flight while the connection and other rows carry on.        *)
(***************************************************************************)
BusyRows == <<[symbol |-> "AAPL", entry_method |-> Null],
              [symbol |-> "MSFT", entry_method |-> "limit_1pct"]>>
BusyFrame == [wellformed |-> TRUE,
              frame |-> [type |-> "scan_results", results |-> BusyRows]]

BusyNext ==
  \/ Mount
  \/ \E s \in SocketIds : OnOpen(s)
  \/ \E s \in SocketIds : OnClose(s)
  \/ \E s \in SocketIds : OnMessage(s, BusyFrame)
  \/ \E checked \in BOOLEAN : handleOverrideToggle("AAPL", checked)
  \/ handleOverrideToggle("MSFT", TRUE)
  \/ \E i \in 1..MaxPending, o \in Outcomes : OverrideResponse(i, o)
  \/ handleEntryMethodChange("AAPL", "market_open")
  \/ \E i \in 1..MaxPending, o \in Outcomes : EntryResponse(i, o)

SpecBusy == Init /\ [][BusyNext]_vars

(***************************************************************************)
(* Mutations of both fields on two symbols, their responses interleaving.  *)
(***************************************************************************)
PairNext ==
  \/ \E sym \in Symbols : handleOverrideToggle(sym, TRUE)
  \/ \E i \in 1..MaxPending, o \in Outcomes : OverrideResponse(i, o)
  \/ handleEntryMethodChange("AAPL", "market_open")
  \/ handleEntryMethodChange("MSFT", "limit_1pct")
  \/ handleResetEntryMethod("AAPL")
  \/ \E i \in 1..MaxPending, o \in Outcomes : EntryResponse(i, o)

SpecPair == Init /\ [][PairNext]_vars

(***************************************************************************)
(* The router over one open connection: status and data_update frames.     *)
(***************************************************************************)
FrameMsgs == {Garbage} \cup Decodable(StatusFrames \cup StartedFrames
                                      \cup ProgressFrames \cup CompleteFrames)

FramesNext ==
  \/ Mount
  \/ \E s \in SocketIds : OnOpen(s)
  \/ \E s \in SocketIds : \E m \in FrameMsgs : OnMessage(s, m)
  \/ Tick

SpecFrames == Init /\ [][FramesNext]_vars

(***************************************************************************)
(* C4..C8: MutationCoordinator                                             *)
(***************************************************************************)
FailedToggle == last.op = "overrideResponse" /\ ~last.ok
FailedAssignment ==
  last.op = "entryResponse" /\ ~last.ok /\ last.cmd.kind = "set"

\* C4: a toggle from false to true with no other mutation of that symbol's
\* flag in flight, whose command fails (either way), shows false again.
C4_FailedToggleShowsFalse ==
  (FailedToggle /\ last.cmd.val = TRUE /\ last.cmd.prev = FALSE
     /\ last.cmd.overlaps = 0)
    => DisplayedOverride(overrides, last.cmd.sym) = FALSE

C4_Witness ==
  /\ FailedToggle
  /\ last.cmd.val = TRUE /\ last.cmd.prev = FALSE /\ last.cmd.overlaps = 0
  /\ last.cmd.sym \in DOMAIN overrides

\* C5: after a failed entry-method assignment the symbol has no local
\* override and its row shows the server-supplied method if it has one, else
\* the configured default (prev_close when none is configured); every row
\* resolves local override first, then server value, then default.
Fallback(r) == IF r.entry_method # Null THEN r.entry_method
               ELSE IF ConfigDefault # Undefined THEN ConfigDefault
               ELSE "prev_close"

C5_FailedAssignmentFallsBack ==
  /\ FailedAssignment =>
       /\ last.cmd.sym \notin DOMAIN entryMethods
       /\ \A r \in Rows : r.symbol = last.cmd.sym =>
            DisplayedEntry(entryMethods, r) = Fallback(r)
  /\ \A r \in Rows :
       DisplayedEntry(entryMethods, r) =
         IF r.symbol \in DOMAIN entryMethods THEN entryMethods[r.symbol]
                                             ELSE Fallback(r)

C5_Witness ==
  /\ FailedAssignment /\ last.cmd.val = "market_open"
  /\ \E r \in Rows : r.symbol = last.cmd.sym /\ r.entry_method = "limit_1pct"
  /\ ConfigDefault = "market_open"

\* C6: a failed toggle sets the flag back to the boolean shown immediately
\* before that toggle was applied, whatever the attempted value.
C6_FailedToggleRestoresPrevious ==
  FailedToggle => DisplayedOverride(overrides, last.cmd.sym) = last.cmd.prev

\* C7 as claimed: of two overlapping mutations of one symbol and field, the
\* one whose response arrives last alone determines the final value: its
\* proposed value on success, its compensation on failure.
BothResolved ==
  /\ last.op \in {"overrideResponse", "entryResponse"}
  /\ last.cmd.kind \in {"toggle", "set"}
  /\ last.cmd.overlaps = 1
  /\ last.pendingOnSym = 0
  /\ Len(last.cmd.heard) = 1
  /\ last.cmd.heard[1].kind = last.cmd.kind

\* each of the two changed what was there, and they proposed different values
DistinctChanges ==
  /\ last.cmd.val # last.cmd.heard[1].val
  /\ last.cmd.prev # last.cmd.val
  /\ last.cmd.heard[1].prev # last.cmd.heard[1].val

\* the local value of the field of last.cmd, as a one-element sequence (empty
\* when the symbol has no local value)
FinalValue ==
  IF last.cmd.kind = "toggle"
    THEN (IF last.cmd.sym \in DOMAIN overrides
            THEN <<overrides[last.cmd.sym]>> ELSE <<>>)
    ELSE (IF last.cmd.sym \in DOMAIN entryMethods
            THEN <<entryMethods[last.cmd.sym]>> ELSE <<>>)
Compensation(kind, val) == IF kind = "toggle" THEN <<~val>> ELSE <<>>

C7_LastResponseWins ==
  (BothResolved /\ DistinctChanges) =>
    FinalValue = IF last.ok THEN <<last.cmd.val>>
                 ELSE Compensation(last.cmd.kind, last.cmd.val)

\* C7 as amended: a failure response writes its compensation, a success
\* response writes nothing; so the final value is the compensation of the
\* failure that arrived last, and with two successes the proposed value of
\* the mutation requested last, whatever the order of the responses.
C7_LastWriteWins ==
  BothResolved =>
    LET first == last.cmd.heard[1] IN
    FinalValue = IF ~last.ok THEN Compensation(last.cmd.kind, last.cmd.val)
                 ELSE IF ~first.ok THEN Compensation(first.kind, first.val)
                 ELSE IF first.earlier THEN <<last.cmd.val>>
                 ELSE <<first.val>>

C7_Witness ==
  /\ BothResolved /\ DistinctChanges /\ last.cmd.kind = "set"
  /\ last.ok /\ last.cmd.heard[1].ok /\ ~last.cmd.heard[1].earlier

\* C8: after a failed entry-method assignment that overlapped no other
\* mutation of that symbol and replaced an earlier, different local override,
\* every row of the symbol shows what it showed with that earlier override.
C8_FailedAssignmentRestoresPrevious ==
  (FailedAssignment /\ last.cmd.overlaps = 0
     /\ last.cmd.prev \notin {Undefined, last.cmd.val}) =>
    \A r \in Rows : r.symbol = last.cmd.sym =>
      DisplayedEntry(entryMethods, r) =
        DisplayedEntry([k \in {last.cmd.sym} |-> last.cmd.prev], r)

(***************************************************************************)
(* C9, C10: MessageRouter / StatusAggregator                               *)
(***************************************************************************)
Routed(type) ==
  /\ last'.op = "onmessage"
  /\ last'.msg.wellformed
  /\ last'.msg.frame.type = type

\* C9: a status frame replaces the status view by its payload; a data_update
\* sub-object of the payload is merged key by key into the data_update slice
\* (its keys take the sub-object's values, every other key keeps its value);
\* without a data_update key the slice is unchanged.
C9_StatusFrameMerges ==
  [][ Routed("status") =>
        LET p == last'.msg.frame.data IN
        /\ status' = <<p>>
        /\ IF "data_update" \in DOMAIN p
             THEN /\ DOMAIN dataUpdateStatus' =
                       DOMAIN dataUpdateStatus \cup DOMAIN p.data_update
                  /\ \A k \in DOMAIN dataUpdateStatus' :
                       dataUpdateStatus'[k] =
                         IF k \in DOMAIN p.data_update THEN p.data_update[k]
                                                       ELSE dataUpdateStatus[k]
             ELSE dataUpdateStatus' = dataUpdateStatus ]_vars

C9_Witness ==
  /\ last.op = "onmessage" /\ last.msg.wellformed
  /\ last.msg.frame.type = "status"
  /\ "data_update" \in DOMAIN last.msg.frame.data
  /\ "last_update" \in DOMAIN last.msg.frame.data.data_update
  /\ Get(dataUpdateStatus, "current_symbol") = "AAPL"
  /\ GetNum(dataUpdateStatus, "done") = 1

\* C10: a progress frame that carries only done and total, arriving while
\* the slice is running with a current_symbol, changes done and total only.
C10_ProgressKeepsOtherFields ==
  [][ ( /\ Routed("data_update_progress")
        /\ DOMAIN FrameData(last'.msg.frame) = {"done", "total"}
        /\ Get(dataUpdateStatus, "status") = "running"
        /\ Get(dataUpdateStatus, "current_symbol") # Undefined )
      => /\ DOMAIN dataUpdateStatus' = DOMAIN dataUpdateStatus
         /\ \A k \in DOMAIN dataUpdateStatus \ {"done", "total"} :
              dataUpdateStatus'[k] = dataUpdateStatus[k] ]_vars

(***************************************************************************)
(* C11, C12: SortController                                                *)
(***************************************************************************)
\* the last n activations were all of column c
LastClicks(n, c) ==
  /\ Len(sortLog) >= n
  /\ \A i \in (Len(sortLog) - n + 1)..Len(sortLog) : sortLog[i].col = c

Unsorted(e) == e.fromCol = Null /\ e.fromDir = Null

\* C11: activating one sortable column repeatedly from the unsorted state
\* gives ascending, then descending, then unsorted again, and after the third
\* activation the table shows the rows in the order it was handed them.
C11_ThreeClicksCycle ==
  \A c \in SORTABLE(table) :
    LET n == Len(sortLog) IN
    /\ (LastClicks(1, c) /\ Unsorted(sortLog[n]))
         => sortCol = c /\ sortDir = ASC
    /\ (LastClicks(2, c) /\ Unsorted(sortLog[n - 1]))
         => sortCol = c /\ sortDir = DESC
    /\ (LastClicks(3, c) /\ Unsorted(sortLog[n - 2]))
         => /\ sortLog[n - 1].fromCol = c /\ sortLog[n - 1].fromDir = ASC
            /\ sortLog[n].fromCol = c /\ sortLog[n].fromDir = DESC
            /\ sortCol = Null /\ sortDir = Null
            /\ sorted = rows

C11_Witness ==
  /\ table = "closed"
  /\ LastClicks(3, "quantity") /\ Unsorted(sortLog[Len(sortLog) - 2])
  /\ Len(rows) = MaxRows
  /\ ArraySort(table, rows, "quantity", ASC) # rows

NumericColumns(t) == SORTABLE(t) \ {"symbol", "entry_date", "exit_date"}

Missing(r, col, t) ==
  Field(r, IF t = "scanner" /\ col = "entry_price" THEN "price" ELSE col) = <<>>

\* position of row r in the list s
Pos(s, r) == CHOOSE i \in DOMAIN s : s[i] = r

\* C12: under every numeric column of every table, a row without a value
\* comes before every row that has a number when ascending and after every
\* such row when descending.
C12_MissingSortsAsMinimum ==
  \A col \in NumericColumns(table) :
    \A a, b \in {rows[i] : i \in DOMAIN rows} :
      (Missing(a, col, table) /\ ~Missing(b, col, table)) =>
        /\ Pos(applySort(table, rows, col, ASC), a)
             < Pos(applySort(table, rows, col, ASC), b)
        /\ Pos(applySort(table, rows, col, DESC), a)
             > Pos(applySort(table, rows, col, DESC), b)

(***************************************************************************)
(* C13: MarketClock                                                        *)
(***************************************************************************)
Weekend(e) == e.day \in {0, 6}

\* C13: at every Saturday or Sunday instant the market status is weekend,
\* not open, and carries a next-open value of Monday 09:30 exchange time.
C13_WeekendNextOpen ==
  Weekend(et) =>
    /\ mkt.label = "weekend"
    /\ ~mkt.open
    /\ "nextOpen" \in DOMAIN mkt
    /\ mkt.nextOpen = [weekday |-> 1, mins |-> OpenMins]

(***************************************************************************)
(* C14..C16: ConnectionManager, continued                                  *)
(***************************************************************************)
\* C14: while the component is not disposed, every close is followed by a
\* new connection attempt, however many attempts have failed in a row.
C14_CloseLeadsToAttempt ==
  (last.op = "onclose" /\ ~unmountedRef)
    ~> (unmountedRef \/ (last.op = "timer" /\ sock[wsRef] = "CONNECTING"))

C14_Witness ==
  /\ last.op = "timer" /\ ~unmountedRef
  /\ sock[wsRef] = "CONNECTING"
  /\ reconnectAttemptRef = MaxAttempt

\* the step is ws.onmessage on a frame JSON.parse rejects
DropsFrame == last'.op = "onmessage" /\ ~last'.msg.wellformed

\* C15: an undecodable frame changes no client state, leaves its socket open
\* and schedules no reconnect; a decodable frame that follows it is applied
\* as usual.
C15_UndecodableFrameDropped ==
  [][ /\ DropsFrame =>
           /\ UNCHANGED clientState
           /\ UNCHANGED <<sock, wsRef, timerCur, timerOrphans, timerDelay,
                          fetchPending>>
           /\ sock'[last'.socket] = "OPEN"
      /\ (last.op = "onmessage" /\ ~last.msg.wellformed /\ Routed("status"))
           => status' = <<last'.msg.frame.data>>
      /\ (last.op = "onmessage" /\ ~last.msg.wellformed
            /\ Routed("scan_results"))
           => scanResults' = last'.msg.frame.results ]_vars

C15_Witness ==
  /\ last.op = "onmessage" /\ ~last.msg.wellformed
  /\ sock[last.socket] = "OPEN"
  /\ status # <<>> /\ scanResults # <<>>
  /\ reconnectAttemptRef = 0 /\ ~timerCur

\* The connection state of the manager, read off the socket wsRef names.
ConnState(ref, sk) ==
  IF ref = NoSocket THEN "Idle"
  ELSE IF sk[ref] = "CONNECTING" THEN "Connecting"
  ELSE IF sk[ref] = "OPEN" THEN "Open"
  ELSE "Closed"

Transition == <<ConnState(wsRef, sock), ConnState(wsRef', sock')>>

SpecTransitions ==
  { <<"Idle", "Connecting">>, <<"Connecting", "Open">>, <<"Open", "Closed">>,
    <<"Closed", "Connecting">> }

ByTimerOnly ==
  Transition = <<"Closed", "Connecting">>
    => (last'.op = "timer" /\ ~unmountedRef)

ShowsProposed(c) ==
  IF c.kind = "toggle"
    THEN DisplayedOverride(overrides, c.sym) = c.val
    ELSE /\ Get(entryMethods, c.sym) = c.val
         /\ \A r \in Rows : r.symbol = c.sym =>
              DisplayedEntry(entryMethods, r) = c.val

\* the handler that ran last applied its change and its command is pending
AppliedAtRequest ==
  /\ last.op = "toggle" =>
       /\ DisplayedOverride(overrides, last.sym) = last.val
       /\ overrideCmds # <<>>
       /\ overrideCmds[Len(overrideCmds)].val = last.val
  /\ last.op = "entryMethod" =>
       /\ Get(entryMethods, last.sym) = last.val
       /\ entryCmds # <<>>
       /\ entryCmds[Len(entryCmds)].val = last.val

\* a pending command holds up neither the socket's handlers nor a mutation
\* of another symbol
NothingStalls ==
  InFlight > 0 =>
    /\ \A s \in SocketIds :
         /\ sock[s] = "CONNECTING" => ENABLED OnOpen(s)
         /\ sock[s] = "OPEN" => ENABLED OnMessage(s, BusyFrame)
         /\ sock[s] = "OPEN" => ENABLED OnClose(s)
    /\ (InFlight < MaxPending /\ overrideCmds # <<>>
          /\ overrideCmds[1].sym = "AAPL")
         => ENABLED handleOverrideToggle("MSFT", TRUE)

ResetAnswered == last.op = "entryResponse" /\ last.cmd.kind = "reset"

\* C18: a reset removes the symbol's local entry method when it is
\* requested, with its command still pending, and the command's response,
\* success or failure, changes no local entry method.
C18_ResetClearsRegardless ==
  [][ /\ last'.op = "resetEntryMethod" =>
           /\ last'.sym \notin DOMAIN entryMethods'
           /\ Len(entryCmds') = Len(entryCmds) + 1
           /\ entryCmds'[Len(entryCmds')].kind = "reset"
      /\ (last'.op = "entryResponse" /\ last'.cmd.kind = "reset") =>
           /\ entryMethods' = entryMethods
           /\ last'.cmd.overlaps = 0 =>
                last'.cmd.sym \notin DOMAIN entryMethods' ]_vars

C18_Witness ==
  /\ ResetAnswered /\ ~last.ok /\ last.cmd.overlaps = 0
  /\ last.cmd.prev = "market_open"
  /\ last.cmd.sym \notin DOMAIN entryMethods

\* the handler that ran last replaced the scanner results by a full snapshot
Refetched ==
  \/ /\ last.op = "fetched" /\ last.endpoint = "results"
     /\ ~last.response.threw
  \/ /\ last.op = "onmessage" /\ last.msg.wellformed
     /\ last.msg.frame.type = "scan_results"

\* the override flag the server sent with a row
ServerOverride(r) == IF "override" \in DOMAIN r THEN r.override ELSE FALSE

\* C19: once a refetch or a scan_results frame has replaced the results
\* (here: with no command pending), every row shows the server's values, not
\* the local overlays.
C19_RefetchEndsOverlay ==
  (Refetched /\ InFlight = 0) =>
    \A r \in Rows :
      /\ DisplayedEntry(entryMethods, r) = Fallback(r)
      /\ DisplayedOverride(overrides, r.symbol) = ServerOverride(r)

(***************************************************************************)
(* C20: MessageRouter, continued                                           *)
(***************************************************************************)
ProgressKeys == {"status", "done", "total", "current_symbol"}

\* C20: a progress frame is merged the same way whatever the slice holds,
\* also after a complete frame: status is running afterwards, done and total
\* are the frame's, the keys a progress frame does not write are kept; and a
\* running status changes only when a later frame is handled.
C20_ProgressAfterCompleteRuns ==
  [][ /\ Routed("data_update_progress") =>
           LET d == FrameData(last'.msg.frame) IN
           /\ DOMAIN dataUpdateStatus' = DOMAIN dataUpdateStatus \cup ProgressKeys
           /\ dataUpdateStatus'.status = "running"
           /\ dataUpdateStatus'.done = GetNum(d, "done")
           /\ dataUpdateStatus'.total = GetNum(d, "total")
           /\ \A k \in DOMAIN dataUpdateStatus \ ProgressKeys :
                dataUpdateStatus'[k] = dataUpdateStatus[k]
      /\ (Get(dataUpdateStatus, "status") = "running"
            /\ Get(dataUpdateStatus', "status") # "running")
           => (last'.op = "onmessage" /\ last'.msg.wellformed) ]_vars

\* a progress frame was handled after a successful complete frame
C20_Witness ==
  /\ last.op = "onmessage" /\ last.msg.wellformed
  /\ last.msg.frame.type = "data_update_progress"
  /\ "error" \in DOMAIN dataUpdateStatus
  /\ Get(dataUpdateStatus, "last_update") = IsoString(now)
  /\ dataUpdateStatus.status = "running"

(***************************************************************************)
(* C21, C22: MessageRouter, data_update frames                             *)
(***************************************************************************)
\* key k is in both slices with one value, or in neither
SameKey(a, b, k) ==
  /\ k \in DOMAIN a <=> k \in DOMAIN b
  /\ k \in DOMAIN a => a[k] = b[k]

\* C21: a complete frame writes its status and its error into the slice;
\* last_update becomes the receipt time exactly when the frame's status is
\* success and otherwise reads as it did before; done, total and
\* current_symbol are left as they were.
C21_CompleteStampsOnSuccessOnly ==
  [][ Routed("data_update_complete") =>
        LET d == FrameData(last'.msg.frame) IN
        /\ "status" \in DOMAIN d => dataUpdateStatus'.status = d.status
        /\ dataUpdateStatus'.error = Get(d, "error")
              \/ ("error" \notin DOMAIN d /\ dataUpdateStatus'.error = Null)
        /\ IF Get(d, "status") = "success"
             THEN dataUpdateStatus'.last_update = IsoString(now)
             ELSE Get(dataUpdateStatus', "last_update")
                    = Get(dataUpdateStatus, "last_update")
        /\ \A k \in {"done", "total", "current_symbol"} :
             SameKey(dataUpdateStatus', dataUpdateStatus, k) ]_vars

\* a failed completion arrived after a successful one of an earlier instant
C21_Witness ==
  /\ last.op = "onmessage" /\ last.msg.wellformed
  /\ last.msg.frame.type = "data_update_complete"
  /\ Get(FrameData(last.msg.frame), "status") = "failed"
  /\ dataUpdateStatus.status = "failed" /\ dataUpdateStatus.error = "boom"
  /\ Get(dataUpdateStatus, "last_update") = IsoString(1) /\ now = 2
  /\ Get(dataUpdateStatus, "current_symbol") = "AAPL"

\* C22: after a started frame the slice is exactly status running, the
\* frame's total and done 0: done is reset whatever it was and no key of the
\* previous slice (current_symbol, error, last_update) survives.
C22_StartedResetsSlice ==
  [][ Routed("data_update_started") =>
        LET d == FrameData(last'.msg.frame) IN
        /\ DOMAIN dataUpdateStatus' = {"status", "total", "done"}
        /\ dataUpdateStatus'.status = "running"
        /\ dataUpdateStatus'.done = 0
        /\ "total" \in DOMAIN d => dataUpdateStatus'.total = d.total ]_vars

\* a started frame arrived on a slice that held all of these
C22_Witness ==
  /\ last.op = "onmessage" /\ last.msg.wellformed
  /\ last.msg.frame.type = "data_update_started"
  /\ {"current_symbol", "error", "last_update"} \subseteq DOMAIN last.before.slice
  /\ last.before.slice.done > 0
  /\ dataUpdateStatus = [status |-> "running", total |-> 2, done |-> 0]

(***************************************************************************)
(* C23, C24: SortController, continued                                     *)
(***************************************************************************)
\* rows a and b have the same sort value on col
Ties(t, a, b, col) == SortValue(t, a, col) = SortValue(t, b, col)

\* C23: under every sortable column and either direction, two rows whose
\* values compare equal (two missing values included) stay in the order the
\* table was handed them, no row is lost, and sorting the sorted rows again
\* changes nothing.
C23_SortIsStable ==
  \A col \in SORTABLE(table), dir \in {ASC, DESC} :
    LET s == applySort(table, rows, col, dir) IN
    /\ Len(s) = Len(rows)
    /\ \A i \in DOMAIN rows : \E k \in DOMAIN s : s[k] = rows[i]
    /\ \A i, j \in DOMAIN rows :
         (i < j /\ Ties(table, rows[i], rows[j], col))
           => Pos(s, rows[i]) < Pos(s, rows[j])
    /\ applySort(table, s, col, dir) = s

\* two rows without a quantity, shown descending behind a row that has one
C23_Witness ==
  /\ table = "closed" /\ sortCol = "quantity" /\ sortDir = DESC
  /\ Len(rows) = MaxRows
  /\ sorted # rows
  /\ \E i, j \in DOMAIN rows :
       /\ i < j
       /\ Field(rows[i], "quantity") = <<>> /\ Field(rows[j], "quantity") = <<>>
       /\ Pos(sorted, rows[i]) < Pos(sorted, rows[j])

\* C24: activating a sortable column other than the active one gives that
\* column ascending, whatever column and direction were active; activating a
\* column that is not sortable leaves column and direction as they were.
C24_NewColumnStartsAscending ==
  sortLog # <<>> =>
    LET e == sortLog[Len(sortLog)] IN
    /\ (e.col \in SORTABLE(table) /\ e.col # e.fromCol)
         => sortCol = e.col /\ sortDir = ASC
    /\ e.col \notin SORTABLE(table)
         => sortCol = e.fromCol /\ sortDir = e.fromDir

\* from a descending column to another one, past a header that does not sort
C24_Witness ==
  /\ Len(sortLog) >= 2
  /\ LET e == sortLog[Len(sortLog)]
         d == sortLog[Len(sortLog) - 1]
     IN  /\ d.col \notin SORTABLE(table) /\ d.fromDir = DESC
         /\ e.col \in SORTABLE(table)
         /\ e.fromCol \notin {Null, e.col} /\ e.fromDir = DESC
         /\ sortCol = e.col /\ sortDir = ASC

(***************************************************************************)
(* C25, C26: MarketClock, continued                                        *)
(***************************************************************************)
\* hh:mm as minutes of the day
HM(h, m) == h * 60 + m

\* the phase the session rules give an exchange-local instant
Phase(e) ==
  IF Weekend(e) THEN "weekend"
  ELSE IF e.mins < HM(9, 30) THEN "pre-market"
  ELSE IF e.mins < HM(16, 0) THEN "open"
  ELSE "after-hours"

\* C25: at every instant the status has exactly one phase: weekend on
\* Saturday and Sunday at any time, and on Monday to Friday pre-market
\* before 09:30, open from 09:30 up to but not including 16:00, after-hours
\* from 16:00; the open flag, and the scanner dot's own check, are true
\* exactly in phase open.
C25_OnePhasePerInstant ==
  /\ mkt.label = Phase(et)
  /\ mkt.open <=> mkt.label = "open"
  /\ marketOpen(et) <=> mkt.open

\* Friday 16:00 itself, rendered a minute after the session's last minute
C25_Witness ==
  /\ last.op = "render"
  /\ et = [day |-> 5, mins |-> HM(16, 0)]
  /\ mkt.label = "after-hours" /\ ~mkt.open

\* the weekday of the session that opens next after a weekday instant
NextSessionDay(e) ==
  IF e.mins < HM(9, 30) THEN e.day
  ELSE IF e.day = 5 THEN 1
  ELSE e.day + 1

\* C26: whenever the market is closed on a weekday the next-open value is
\* 09:30 exchange time on a Monday-to-Friday day: the same day before
\* 09:30, otherwise the first later day that is neither Saturday nor Sunday.
C26_NextOpenIsNextSession ==
  (~Weekend(et) /\ ~mkt.open) =>
    /\ "nextOpen" \in DOMAIN mkt
    /\ mkt.nextOpen.mins = HM(9, 30)
    /\ mkt.nextOpen.weekday \in 1..5
    /\ mkt.nextOpen.weekday = NextSessionDay(et)

(***************************************************************************)
(* C27: full-snapshot refetches                                            *)
(***************************************************************************)
\* the step is the arrival of a refetch's response, and the refetch failed:
\* a network error, or an HTTP status that is not a success
FailedRefetch ==
  /\ last'.op = "fetched"
  /\ last'.response.threw \/ ~last'.response.ok

\* C27: a failed refetch of status, scanner results, positions or config
\* leaves the value the client held unchanged.
C27_FailedRefetchKeepsState ==
  [][ FailedRefetch =>
        UNCHANGED <<status, scanResults, lastScanUpdate, positions,
                    config>> ]_vars

(***************************************************************************)
(* C28..C30: MessageRouter, effects of the other frames                    *)
(***************************************************************************)
\* C28: a scan_results frame makes the frame's rows the scanner results,
\* none of the previous rows staying unless the frame has it, and stamps
\* the last-scan time with the time of receipt; status view, data_update
\* slice, positions and local overlays are as before.
C28_ScanResultsReplaces ==
  [][ Routed("scan_results") =>
        /\ "results" \in DOMAIN last'.msg.frame
              => scanResults' = last'.msg.frame.results
        /\ \A i \in DOMAIN scanResults' :
              \E j \in DOMAIN ResultsOf(last'.msg.frame) :
                 scanResults'[i] = ResultsOf(last'.msg.frame)[j]
        /\ lastScanUpdate' = now
        /\ UNCHANGED <<status, dataUpdateStatus, positions, overrides,
                       entryMethods>> ]_vars

\* a shorter list arrived at a later time, over rows it does not carry
C28_Witness ==
  /\ last.op = "onmessage" /\ last.msg.wellformed
  /\ last.msg.frame.type = "scan_results"
  /\ last.before.results = RouterRows /\ Len(scanResults) = 1
  /\ \A i \in DOMAIN scanResults : scanResults[i].symbol # "MSFT"
  /\ lastScanUpdate = now /\ now > 1
  /\ status # <<>> /\ positions # <<>> /\ dataUpdateStatus # EmptyObj
  /\ "AAPL" \in DOMAIN overrides /\ "AAPL" \in DOMAIN entryMethods

\* C29: an orders_executed frame changes no client state by itself and
\* starts one refetch of positions and one of status, and no other; the
\* positions change only when a positions refetch completes, the status
\* view only when a status refetch completes or a status frame arrives.
C29_OrdersExecutedRefetches ==
  [][ /\ Routed("orders_executed") =>
           /\ UNCHANGED <<wsConnected, status, dataUpdateStatus, scanResults,
                          lastScanUpdate, positions, config, overrides,
                          entryMethods>>
           /\ \A e \in DOMAIN fetchPending :
                fetchPending'[e] = fetchPending[e]
                  + (IF e \in {"positions", "status"} THEN 1 ELSE 0)
      /\ positions' # positions
           => (last'.op = "fetched" /\ last'.endpoint = "positions")
      /\ status' # status
           => \/ (last'.op = "fetched" /\ last'.endpoint = "status")
              \/ Routed("status") ]_vars

\* the hint arrived with no refetch of either kind pending, over positions
\* and a status the client already held
C29_Witness ==
  /\ last.op = "onmessage" /\ last.msg.wellformed
  /\ last.msg.frame.type = "orders_executed"
  /\ fetchPending["positions"] = 1 /\ fetchPending["status"] = 1
  /\ positions # <<>> /\ status # <<>>

DataUpdateFrames == {"data_update_started", "data_update_progress",
                     "data_update_complete"}

\* C30: a data_update_started, _progress or _complete frame changes the
\* data_update slice only: status view, scanner results and their time,
\* positions, config, local overlays and the connection are as before.
C30_DataUpdateFramesTouchSliceOnly ==
  [][ (\E t \in DataUpdateFrames : Routed(t)) =>
        /\ UNCHANGED <<status, scanResults, lastScanUpdate, positions, config,
                       overrides, entryMethods>>
        /\ UNCHANGED <<wsConnected, wsRef, sock, reconnectAttemptRef,
                       timerCur, timerOrphans, fetchPending>> ]_vars

C30_Witness ==
  /\ last.op = "onmessage" /\ last.msg.wellformed
  /\ last.msg.frame.type = "data_update_complete"
  /\ last.before.slice # dataUpdateStatus
  /\ status # <<>> /\ scanResults = RouterRows /\ positions # <<>>
  /\ "AAPL" \in DOMAIN overrides /\ "AAPL" \in DOMAIN entryMethods
  /\ wsConnected

(***************************************************************************)
(* C31: the data-refresh trigger                                           *)
(***************************************************************************)
\* C31: when the trigger is answered with 409 the client reports that an
\* update is already in progress, sends no further request and changes no
\* client state; whatever the answer, the trigger does not write the
\* data_update slice: the slice changes only when a frame is handled.
C31_BusyTriggerOnlyReports ==
  [][ /\ (last'.op = "updateResponse" /\ ~last'.response.threw
            /\ last'.response.status = 409) =>
           /\ last'.alert = "Data update already in progress"
           /\ fetchPending' = [fetchPending EXCEPT !["update"] = @ - 1]
           /\ UNCHANGED <<wsConnected, status, dataUpdateStatus, scanResults,
                          lastScanUpdate, positions, config, overrides,
                          entryMethods>>
      /\ last'.op \in {"updateDataNow", "updateResponse"}
           => UNCHANGED dataUpdateStatus
      /\ dataUpdateStatus' # dataUpdateStatus
           => (last'.op = "onmessage" /\ last'.msg.wellformed) ]_vars

\* the server answered 409 while the slice showed the running update
C31_Witness ==
  /\ last.op = "updateResponse" /\ ~last.response.threw
  /\ last.response.status = 409
  /\ Get(dataUpdateStatus, "status") = "running"
  /\ GetNum(dataUpdateStatus, "done") = 1
  /\ fetchPending["update"] = 0

(***************************************************************************)
(* C32: MessageRouter, frames that carry no state                          *)
(***************************************************************************)
\* the discriminants whose branch writes state or refetches
StateFrames == {"status", "scan_results", "orders_executed",
                "data_update_started", "data_update_progress",
                "data_update_complete"}

\* C32: an exit_triggers frame, and a decodable frame of a type the router
\* does not know, leave status, data_update slice, results, positions,
\* config and overlays as they were, start no refetch and do not touch the
\* connection.
C32_OtherFramesChangeNothing ==
  [][ (last'.op = "onmessage" /\ last'.msg.wellformed
         /\ last'.msg.frame.type \notin StateFrames) =>
        /\ UNCHANGED <<status, dataUpdateStatus, scanResults, lastScanUpdate,
                       positions, config, overrides, entryMethods>>
        /\ UNCHANGED <<wsConnected, wsRef, sock, reconnectAttemptRef,
                       timerCur, timerOrphans, timerDelay, fetchPending>> ]_vars

\* an exit_triggers frame handled over a full client state
C32_Witness ==
  /\ last.op = "onmessage" /\ last.msg.wellformed
  /\ last.msg.frame.type = "exit_triggers"
  /\ status # <<>> /\ scanResults = RouterRows /\ positions # <<>>
  /\ Get(dataUpdateStatus, "status") = "running"
  /\ "AAPL" \in DOMAIN overrides /\ "AAPL" \in DOMAIN entryMethods
  /\ sock[last.socket] = "OPEN" /\ wsConnected

(***************************************************************************)
(* C33: ConnectionManager, dispose called again                            *)
(***************************************************************************)
\* C33: a second call of dispose leaves every ref, timer, socket and state
\* cell as the first call left it (connection events may have come in
\* between): it starts no connection attempt and schedules no timer.
C33_DisposeIsIdempotent ==
  [][ last'.op = "disposeAgain" =>
        /\ UNCHANGED <<unmountedRef, wsRef, reconnectAttemptRef, timerCur,
                       timerOrphans, timerDelay, sock, wsConnected,
                       fetchPending, runLen>>
        /\ UNCHANGED frameVars /\ UNCHANGED mutVars
        /\ ~timerCur' /\ timerOrphans' = 0
        /\ \A s \in SocketIds : sock'[s] \in {"FREE", "CLOSING"} ]_vars

\* the second call came after the close event of the socket the first closed
C33_Witness ==
  /\ last.op = "disposeAgain" /\ last.readyState = "FREE"
  /\ unmountedRef /\ reconnectAttemptRef > 0

(***************************************************************************)
(* C34: ConnectionManager, one connection at a time                        *)
(***************************************************************************)
LiveSockets == {s \in SocketIds : sock[s] \in {"CONNECTING", "OPEN"}}
PendingTimers == (IF timerCur THEN 1 ELSE 0) + timerOrphans

\* C34: at every moment at most one socket is connecting or open and at
\* most one reconnect timer is pending, also when the effect runs again
\* after a cleanup before the closed socket's close event has arrived.
C34_OneConnectionAtATime ==
  /\ Cardinality(LiveSockets) <= 1
  /\ PendingTimers <= 1

(***************************************************************************)
(* C35: MutationCoordinator, agreement with the server                     *)
(***************************************************************************)
\* a toggle or an assignment resolved that shared its time in flight with no
\* other command on its symbol and field, and none is pending now
ResolvedAlone ==
  /\ last.op \in {"overrideResponse", "entryResponse"}
  /\ last.cmd.kind \in {"toggle", "set"}
  /\ last.cmd.overlaps = 0
  /\ last.pendingOnSym = 0

\* the local value of the command's field (Undefined: no local value)
LocalValue ==
  IF last.cmd.kind = "toggle" THEN DisplayedOverride(overrides, last.cmd.sym)
                              ELSE Get(entryMethods, last.cmd.sym)

\* C35: once the commands on a symbol and field have resolved, the local
\* value is the value of the last command the server accepted, or, none
\* having been accepted, the value shown before the mutation; here for a
\* command that was alone in flight on its symbol and field.
C35_ResolvedAgreesWithServer ==
  ResolvedAlone =>
    LocalValue = IF last.ok THEN last.cmd.val ELSE last.cmd.prev

(***************************************************************************)
(* C36: ConnectionManager, the connectivity flag                           *)
(***************************************************************************)
\* C36: in every reachable state the flag reported to consumers is true
\* exactly when the connection is open; so it is false before the first
\* open, after every close, and once disposed.
C36_FlagIffOpen ==
  /\ wsConnected <=> ConnState(wsRef, sock) = "Open"
  /\ unmountedRef => ~wsConnected

(***************************************************************************)
(* C37: MessageRouter, status and time of a completion                     *)
(***************************************************************************)
\* C37: after a complete frame the stored status is success only if
\* last_update was set to the frame's receipt time, also when the frame
\* carries no status.
C37_SuccessImpliesStamped ==
  [][ Routed("data_update_complete") =>
        (dataUpdateStatus'.status = "success"
           => dataUpdateStatus'.last_update = IsoString(now)) ]_vars

(***************************************************************************)
(* C38: ConnectionManager, error and close                                 *)
(***************************************************************************)
\* C38: an error event changes nothing and schedules no reconnect; a close
\* while not disposed schedules one timer and adds one to the attempt
\* counter, and nothing else schedules a timer or raises the counter: an
\* error followed by its close gives one reconnect.
C38_OneReconnectPerLoss ==
  [][ /\ last'.op = "onerror" =>
           /\ UNCHANGED <<unmountedRef, wsRef, reconnectAttemptRef, timerCur,
                          timerOrphans, timerDelay, sock, wsConnected,
                          fetchPending, runLen>>
           /\ UNCHANGED frameVars /\ UNCHANGED mutVars
      /\ (last'.op = "onclose" /\ ~unmountedRef) =>
           /\ PendingTimers' = PendingTimers + 1
           /\ reconnectAttemptRef' = reconnectAttemptRef + 1
      /\ PendingTimers' > PendingTimers => last'.op = "onclose"
      /\ reconnectAttemptRef' > reconnectAttemptRef => last'.op = "onclose"
    ]_vars

\* the open socket reported an error and then closed: one timer, one attempt
C38_Witness ==
  /\ last.op = "onclose" /\ last.afterError /\ last.wasOpen
  /\ ~last.unmounted
  /\ PendingTimers = 1 /\ reconnectAttemptRef = 1

(***************************************************************************)
(* C39: MutationCoordinator, independence of symbols and fields            *)
(***************************************************************************)
\* the symbol the step's mutation handler or response is about
Target == IF last'.op \in {"overrideResponse", "entryResponse"}
            THEN last'.cmd.sym ELSE last'.sym

\* C39: requesting a mutation of one symbol and field, and the success or
\* failure of its command, change neither the overlay of another symbol nor
\* the other overlay of the same symbol, whatever else is pending.
C39_MutationsAreIndependent ==
  [][ /\ last'.op \in {"toggle", "overrideResponse"} =>
           /\ entryMethods' = entryMethods
           /\ \A y \in Symbols \ {Target} : SameKey(overrides', overrides, y)
      /\ last'.op \in {"entryMethod", "resetEntryMethod", "entryResponse"} =>
           /\ overrides' = overrides
           /\ \A y \in Symbols \ {Target} :
                SameKey(entryMethods', entryMethods, y) ]_vars

\* a toggle of AAPL failed while a command on MSFT was pending, both symbols
\* holding both overlays
C39_Witness ==
  /\ last.op = "overrideResponse" /\ ~last.ok /\ last.cmd.sym = "AAPL"
  /\ InFlight = 1
  /\ \A i \in DOMAIN overrideCmds : overrideCmds[i].sym = "MSFT"
  /\ \A i \in DOMAIN entryCmds : entryCmds[i].sym = "MSFT"
  /\ DOMAIN overrides = Symbols /\ DOMAIN entryMethods = Symbols
  /\ overrides["MSFT"] /\ entryMethods["MSFT"] = "limit_1pct"

(***************************************************************************)
(* C40: SortController, well-formed sort spec                              *)
(***************************************************************************)
\* C40: on either table, from its initial spec and after any header clicks,
\* the sort column is none exactly when the direction is none, a selected
\* column is one of the table's sortable columns, and the direction is
\* ascending, descending or none.
C40_SortSpecWellFormed ==
  /\ (sortCol = Null) <=> (sortDir = Null)
  /\ sortCol # Null => sortCol \in SORTABLE(table)
  /\ sortDir \in {Null, ASC, DESC}

\* the closed-positions table, started at (exit_date, descending), cleared by
\* a click on exit_date, then clicked on an unsortable header and sorted again
C40_Witness ==
  /\ table = "closed" /\ Len(sortLog) = MaxClicks
  /\ sortLog[1].fromCol = "exit_date" /\ sortLog[1].fromDir = DESC
  /\ sortLog[1].col = "exit_date"
  /\ sortLog[2].fromCol = Null /\ sortLog[2].fromDir = Null
  /\ \E i \in 2..MaxClicks : sortLog[i].col \notin SORTABLE(table)
  /\ sortCol = "quantity" /\ sortDir = DESC

====
